---- MODULE Spec2Model ----
(***************************************************************************)
(* Model of the Pillager Tournament Tracker (src/app.js).                  *)
(*                                                                         *)
(* JavaScript strings are modelled as sequences of one-character strings,  *)
(* so that pattern matching, trimming, case folding and HTML attribute     *)
(* parsing are computed character by character.  JavaScript array indices  *)
(* are 0-based; a sequence position p holds array index p - 1.             *)
(* The theme toggle (effectiveTheme, applyTheme, toggleTheme) touches      *)
(* nothing the other functions read and is left out.                       *)
(***************************************************************************)
EXTENDS Integers, Sequences, FiniteSets, TLC

VARIABLES
    booted,             \* TRUE once the DOMContentLoaded listener has run
    status,             \* the state setStatus last set: idle, loading, live, error
    cachedRounds,       \* let cachedRounds: null or the rounds of the last successful load
    activeTeamFilter,   \* let activeTeamFilter
    content,            \* what #tournament-content shows
    sel,                \* the #team-filter select: its option values, value, disabled
    refreshTimer,       \* let refreshTimer: the last id setTimeout returned, 0 for null
    timers,             \* the ids of the refresh timers that are armed
    calls,              \* the calls of fetchSheetData, by slot
    windowCb,           \* window[cbName]: the call whose callback is registered, 0 for none
    clock,              \* the token of the current reading of Date.now(), 0 if unused
    lastResult,         \* how the load cycle that ended last ended: none, ok, fail
    headers,            \* parseCourts on its own: the header labels handed to it
    courts,             \* parseCourts on its own: the value it returned
    parsed              \* parseCourts on its own: TRUE once it has returned

courtVars == <<headers, courts, parsed>>
viewVars == <<cachedRounds, activeTeamFilter, content>>
cycleVars ==
    <<booted, status, sel, refreshTimer, timers, calls, windowCb, clock, lastResult>>
vars ==
    <<booted, status, cachedRounds, activeTeamFilter, content, sel, refreshTimer,
      timers, calls, windowCb, clock, lastResult, headers, courts, parsed>>

(***************************************************************************)
(* Characters and strings                                                  *)
(***************************************************************************)

\* Whitespace matched by \s and removed by String.prototype.trim.
IsSpace(c) == c \in {" ", "\t"}

\* Characters matched by \d.
IsDigit(c) == c \in {"0", "1", "2", "3", "4", "5", "6", "7", "8", "9"}

DigitVal(c) ==
    CASE c = "0" -> 0 [] c = "1" -> 1 [] c = "2" -> 2 [] c = "3" -> 3
      [] c = "4" -> 4 [] c = "5" -> 5 [] c = "6" -> 6 [] c = "7" -> 7
      [] c = "8" -> 8 [] c = "9" -> 9

UpperChars == <<"A", "B", "C", "D", "E", "F", "G", "H", "I", "J", "K", "L", "M",
                "N", "O", "P", "Q", "R", "S", "T", "U", "V", "W", "X", "Y", "Z">>
LowerChars == <<"a", "b", "c", "d", "e", "f", "g", "h", "i", "j", "k", "l", "m",
                "n", "o", "p", "q", "r", "s", "t", "u", "v", "w", "x", "y", "z">>

\* String.prototype.toLowerCase, one character.
LowerChar(c) ==
    IF \E k \in 1..26 : UpperChars[k] = c
    THEN LowerChars[CHOOSE k \in 1..26 : UpperChars[k] = c]
    ELSE c

\* String.prototype.toLowerCase.
ToLowerCase(s) == [k \in 1..Len(s) |-> LowerChar(s[k])]

\* Length of the longest run of whitespace of s that starts at position i.
RECURSIVE SpaceRun(_, _)
SpaceRun(s, i) ==
    IF i <= Len(s) /\ IsSpace(s[i]) THEN 1 + SpaceRun(s, i + 1) ELSE 0

\* Length of the longest run of digits of s that starts at position i.
RECURSIVE DigitRun(_, _)
DigitRun(s, i) ==
    IF i <= Len(s) /\ IsDigit(s[i]) THEN 1 + DigitRun(s, i + 1) ELSE 0

\* Length of the run of whitespace that ends s.
RECURSIVE TrailingSpaces(_)
TrailingSpaces(s) ==
    IF Len(s) > 0 /\ IsSpace(s[Len(s)])
    THEN 1 + TrailingSpaces(SubSeq(s, 1, Len(s) - 1))
    ELSE 0

\* String.prototype.trim.
Trim(s) ==
    LET lead == SpaceRun(s, 1)
    IN  IF lead = Len(s) THEN <<>>
        ELSE SubSeq(s, lead + 1, Len(s) - TrailingSpaces(s))

\* The number a run of decimal digits denotes (parseInt(digits, 10), Number(digits)).
RECURSIVE DigitsValue(_)
DigitsValue(s) ==
    IF s = <<>> THEN 0
    ELSE 10 * DigitsValue(SubSeq(s, 1, Len(s) - 1)) + DigitVal(s[Len(s)])

\* Position of the first digit of s at or after position i, 0 when there is none.
RECURSIVE FirstDigit(_, _)
FirstDigit(s, i) ==
    IF i > Len(s) THEN 0
    ELSE IF IsDigit(s[i]) THEN i
    ELSE FirstDigit(s, i + 1)

(***************************************************************************)
(* parseCourts                                                             *)
(***************************************************************************)

CourtWord == <<"c", "o", "u", "r", "t">>

NoMatch == [ok |-> FALSE, name |-> <<>>, rest |-> <<>>]

\* label.match(/^(Court\s+\d+)\s+(.+)$/i): name is group 1, rest is group 2.
\* Both \s+ and \d+ are greedy; the second \s+ gives back its last character to
\* (.+) only when nothing follows the whitespace.
MatchCourt(label) ==
    LET w1      == SpaceRun(label, Len(CourtWord) + 1)
        d       == DigitRun(label, Len(CourtWord) + 1 + w1)
        nameLen == Len(CourtWord) + w1 + d
        w2      == SpaceRun(label, nameLen + 1)
        restAt  == nameLen + w2 + 1
        wordOk  == /\ Len(label) >= Len(CourtWord)
                   /\ \A k \in 1..Len(CourtWord) : LowerChar(label[k]) = CourtWord[k]
    IN  IF ~wordOk \/ w1 = 0 \/ d = 0 \/ w2 = 0 THEN NoMatch
        ELSE IF restAt <= Len(label)
        THEN [ok |-> TRUE, name |-> SubSeq(label, 1, nameLen),
              rest |-> SubSeq(label, restAt, Len(label))]
        ELSE IF w2 >= 2
        THEN [ok |-> TRUE, name |-> SubSeq(label, 1, nameLen),
              rest |-> <<label[Len(label)]>>]
        ELSE NoMatch

\* A column index that was never assigned (undefined in the code).
NoCol == -1

\* { name: courtName, hasScores: false }
NewCourt(courtName) ==
    [name |-> courtName, hasScores |-> FALSE,
     teamACol |-> NoCol, teamBCol |-> NoCol, scoreACol |-> NoCol, scoreBCol |-> NoCol]

FieldTeamA  == <<"t", "e", "a", "m", " ", "a">>
FieldTeamB  == <<"t", "e", "a", "m", " ", "b">>
FieldA      == <<"a">>
FieldB      == <<"b">>
FieldScoreA == <<"s", "c", "o", "r", "e", " ", "a">>
FieldScoreB == <<"s", "c", "o", "r", "e", " ", "b">>

\* The if / else-if chain that records column i of court c under its field.
AssignField(c, field, i) ==
    IF field = FieldTeamA \/ field = FieldA THEN [c EXCEPT !.teamACol = i]
    ELSE IF field = FieldTeamB \/ field = FieldB THEN [c EXCEPT !.teamBCol = i]
    ELSE IF field = FieldScoreA THEN [c EXCEPT !.scoreACol = i, !.hasScores = TRUE]
    ELSE IF field = FieldScoreB THEN [c EXCEPT !.scoreBCol = i, !.hasScores = TRUE]
    ELSE c

\* Mutant of SkipIndex: only column A is skipped.
SkipIndex_OnlyFirst(i, label) == i < 1 \/ label = <<>>

\* Whether header index i is skipped before the pattern is tried.
SkipIndex(i, label) == i < 2 \/ label = <<>>

\* headers.forEach: map is the object's entries in insertion order, pos the
\* position of the next header (array index pos - 1).
RECURSIVE ForEachHeader(_, _, _)
ForEachHeader(hs, pos, map) ==
    IF pos > Len(hs) THEN map
    ELSE
        LET label == hs[pos]
            i     == pos - 1
            m     == MatchCourt(label)
        IN  IF SkipIndex(i, label) \/ ~m.ok THEN ForEachHeader(hs, pos + 1, map)
            ELSE
                LET known == \E k \in 1..Len(map) : map[k].name = m.name
                    map1  == IF known THEN map ELSE Append(map, NewCourt(m.name))
                    k     == CHOOSE k \in 1..Len(map1) : map1[k].name = m.name
                    field == ToLowerCase(Trim(m.rest))
                IN  ForEachHeader(hs, pos + 1,
                                  [map1 EXCEPT ![k] = AssignField(map1[k], field, i)])

\* n(s) of the sort comparator: parseInt(s.match(/\d+/)?.[0] ?? 0, 10).
CourtNumber(name) ==
    LET at == FirstDigit(name, 1)
    IN  IF at = 0 THEN 0
        ELSE DigitsValue(SubSeq(name, at, at + DigitRun(name, at) - 1))

\* The comparator of the sort: negative, zero or positive.
CompareCourts(a, b) == CourtNumber(a.name) - CourtNumber(b.name)

\* Array.prototype.sort (stable): c goes after every element not greater than it.
RECURSIVE SortInsert(_, _)
SortInsert(sorted, c) ==
    IF sorted = <<>> THEN <<c>>
    ELSE IF CompareCourts(sorted[Len(sorted)], c) <= 0 THEN Append(sorted, c)
    ELSE Append(SortInsert(SubSeq(sorted, 1, Len(sorted) - 1), c), sorted[Len(sorted)])

RECURSIVE SortCourts(_)
SortCourts(cs) ==
    IF cs = <<>> THEN <<>>
    ELSE SortInsert(SortCourts(SubSeq(cs, 1, Len(cs) - 1)), cs[Len(cs)])

parseCourts(hs) == SortCourts(ForEachHeader(hs, 1, <<>>))

(***************************************************************************)
(* parseRounds                                                             *)
(***************************************************************************)

\* Values of the gviz table: null/undefined, a string, a number, a time of day
\* [hours, minutes, 0, 0].
Null == [t |-> "null"]
Str(s) == [t |-> "str", s |-> s]
Num(n) == [t |-> "num", n |-> n]
Tod(h, m) == [t |-> "tod", h |-> h, m |-> m]

\* A cell { v, f } of a row.
Cell(v, f) == [t |-> "cell", v |-> v, f |-> f]

DigitChars == <<"0", "1", "2", "3", "4", "5", "6", "7", "8", "9">>

\* The decimal digits of a natural number (String(n), template interpolation).
RECURSIVE NatToString(_)
NatToString(n) ==
    IF n < 10 THEN <<DigitChars[n + 1]>>
    ELSE Append(NatToString(n \div 10), DigitChars[(n % 10) + 1])

\* String(v) for a non-null value; an array is joined with commas.
StringOf(v) ==
    CASE v.t = "str" -> v.s
      [] v.t = "num" -> NatToString(v.n)
      [] v.t = "tod" -> NatToString(v.h) \o <<",">> \o NatToString(v.m)
                        \o <<",", "0", ",", "0">>

\* row.c?.[idx]
CellAt(row, idx) == IF idx + 1 \in 1..Len(row) THEN row[idx + 1] ELSE Null

\* const cell = (row, idx) => ...
cell(row, idx) ==
    IF idx = NoCol THEN <<>>
    ELSE LET c == CellAt(row, idx)
         IN  IF c.t = "null" THEN <<>>
             ELSE IF c.v.t = "null" THEN <<>>
             ELSE Trim(StringOf(c.v))

\* String(m).padStart(2, '0')
PadStart2(s) == IF Len(s) < 2 THEN <<"0">> \o s ELSE s

\* const timeCell = (row, idx) => ...
timeCell(row, idx) ==
    LET col == CellAt(row, idx)
    IN  IF col.t = "null" THEN <<>>
        ELSE IF col.f.t # "null" THEN Trim(StringOf(col.f))
        ELSE IF col.v.t = "null" THEN <<>>
        ELSE IF col.v.t = "tod"
        THEN LET h    == col.v.h
                 m    == col.v.m
                 ampm == IF h >= 12 THEN <<"P", "M">> ELSE <<"A", "M">>
                 h12  == IF h % 12 = 0 THEN 12 ELSE h % 12
             IN  IF m = 0 THEN NatToString(h12) \o ampm
                 ELSE NatToString(h12) \o <<":">> \o PadStart2(NatToString(m)) \o ampm
        ELSE Trim(StringOf(col.v))

\* The rounds.push({ time, matchups }) of every row, for the courts cts.
RoundsOf(table, cts) ==
    [r \in 1..Len(table.rows) |->
        [time     |-> timeCell(table.rows[r], 1),
         matchups |-> [k \in 1..Len(cts) |->
            [court     |-> cts[k].name,
             hasScores |-> cts[k].hasScores,
             teamA     |-> cell(table.rows[r], cts[k].teamACol),
             teamB     |-> cell(table.rows[r], cts[k].teamBCol),
             scoreA    |-> IF cts[k].scoreACol # NoCol
                           THEN cell(table.rows[r], cts[k].scoreACol) ELSE <<>>,
             scoreB    |-> IF cts[k].scoreBCol # NoCol
                           THEN cell(table.rows[r], cts[k].scoreBCol) ELSE <<>>]]]]

\* parseRounds(table): table.cols holds the labels (c.label ?? ''), table.rows
\* the cell lists (row.c).
parseRounds(table) == RoundsOf(table, parseCourts(table.cols))

(***************************************************************************)
(* Team filter and rendering                                               *)
(***************************************************************************)

\* collectTeams(rounds): the distinct non-empty team names.  The order the
\* names are listed in (localeCompare) only orders the options and is not
\* modelled.
collectTeams(rounds) ==
    UNION {UNION {{rounds[r].matchups[k].teamA, rounds[r].matchups[k].teamB} :
                    k \in 1..Len(rounds[r].matchups)} :
             r \in 1..Len(rounds)}
        \ {<<>>}

\* The result of Number(s) for a non-empty trimmed cell text: a run of decimal
\* digits is that number, any other text over the modelled alphabet is NaN.
NaN == [t |-> "nan"]
Number(s) ==
    IF \A k \in 1..Len(s) : IsDigit(s[k]) THEN Num(DigitsValue(s)) ELSE NaN

\* a > b on the values renderMatchup compares: false when either is NaN.
Greater(a, b) == a.t = "num" /\ b.t = "num" /\ a.n > b.n

\* The placeholder <span class="no-matches"> cell.
Dash ==
    [dash |-> TRUE, teamA |-> <<>>, teamB |-> <<>>, scoreA |-> Null, scoreB |-> Null,
     aWins |-> FALSE, bWins |-> FALSE]

\* renderMatchup(m, showWinner): the cell's markup, as the facts it shows
\* (aWins and bWins are the "winner" classes of the two team rows).
renderMatchup(m, showWinner) ==
    IF m.teamA = <<>> /\ m.teamB = <<>> THEN Dash
    ELSE
        LET sA   == IF m.scoreA # <<>> THEN Number(m.scoreA) ELSE Null
            sB   == IF m.scoreB # <<>> THEN Number(m.scoreB) ELSE Null
            both == sA.t # "null" /\ sB.t # "null"
        IN  [dash |-> FALSE, teamA |-> m.teamA, teamB |-> m.teamB,
             scoreA |-> sA, scoreB |-> sB,
             aWins |-> showWinner /\ both /\ Greater(sA, sB),
             bWins |-> showWinner /\ both /\ Greater(sB, sA)]

\* rounds.filter(r => r.time)
ValidRounds(rounds) == SelectSeq(rounds, LAMBDA r : r.time # <<>>)

\* Mutant of NextRoundHasData: the last round is not exempted.
NextRoundHasData_NotLast(validRounds, r) ==
    /\ r < Len(validRounds)
    /\ \E k \in 1..Len(validRounds[r + 1].matchups) :
          \/ validRounds[r + 1].matchups[k].teamA # <<>>
          \/ validRounds[r + 1].matchups[k].teamB # <<>>

\* const nextRoundHasData = isLastRound || validRounds[roundIdx + 1].matchups.some(...)
\* for the round at position r of validRounds.
NextRoundHasData(validRounds, r) ==
    LET isLastRound == r = Len(validRounds)
    IN  \/ isLastRound
        \/ \E k \in 1..Len(validRounds[r + 1].matchups) :
              \/ validRounds[r + 1].matchups[k].teamA # <<>>
              \/ validRounds[r + 1].matchups[k].teamB # <<>>

\* Mutant of CourtIndices: only the first valid round is searched for the team.
CourtIndices_FirstRound(validRounds, filter) ==
    LET all == [i \in 1..Len(validRounds[1].matchups) |-> i]
    IN  IF filter # <<>>
        THEN SelectSeq(all, LAMBDA i :
                \/ validRounds[1].matchups[i].teamA = filter
                \/ validRounds[1].matchups[i].teamB = filter)
        ELSE all

\* The courts kept under the filter: (the filtered) courtIndices, as positions.
CourtIndices(validRounds, filter) ==
    LET all == [i \in 1..Len(validRounds[1].matchups) |-> i]
    IN  IF filter # <<>>
        THEN SelectSeq(all, LAMBDA i :
                \E r \in 1..Len(validRounds) :
                    \/ validRounds[r].matchups[i].teamA = filter
                    \/ validRounds[r].matchups[i].teamB = filter)
        ELSE all

\* What #tournament-content holds.
Content(kind, times, rows, msg) ==
    [kind |-> kind, times |-> times, rows |-> rows, msg |-> msg]

\* renderAll(rounds), reading activeTeamFilter as filter: the new innerHTML of
\* #tournament-content.  The scroll offsets it carries over are not modelled.
renderAll(rounds, filter) ==
    LET validRounds == ValidRounds(rounds)
    IN  IF Len(validRounds) = 0 THEN Content("empty", <<>>, <<>>, "")
        ELSE
            LET courtIndices == CourtIndices(validRounds, filter)
            IN  IF filter # <<>> /\ Len(courtIndices) = 0
                THEN Content("nomatch", <<>>, <<>>, "")
                ELSE Content("grid",
                        [r \in 1..Len(validRounds) |-> validRounds[r].time],
                        [j \in 1..Len(courtIndices) |->
                            [court |-> validRounds[1].matchups[courtIndices[j]].court,
                             cells |-> [r \in 1..Len(validRounds) |->
                                LET m    == validRounds[r].matchups[courtIndices[j]]
                                    show == \/ filter = <<>>
                                            \/ m.teamA = filter
                                            \/ m.teamB = filter
                                IN  IF show
                                    THEN renderMatchup(m, NextRoundHasData(validRounds, r))
                                    ELSE Dash]]],
                        "")

(***************************************************************************)
(* Header labels used as inputs                                            *)
(***************************************************************************)

H_Empty        == <<>>
H_Time         == <<"T", "i", "m", "e">>
H_C2TeamA      == <<"C", "o", "u", "r", "t", " ", "2", " ", "T", "e", "a", "m", " ", "A">>
H_C2ScoreA     == <<"C", "o", "u", "r", "t", " ", "2", " ", "S", "c", "o", "r", "e", " ", "A">>
H_C10A         == <<"C", "o", "u", "r", "t", " ", "1", "0", " ", "A">>
H_c2scoreb     == <<"c", "o", "u", "r", "t", " ", "2", " ", "s", "c", "o", "r", "e", " ", "b", " ">>
H_C3Notes      == <<"C", "o", "u", "r", "t", " ", "3", " ", "N", "o", "t", "e", "s">>
H_C1Blank      == <<"C", "o", "u", "r", "t", " ", "1", " ", " ">>
H_C2Bare       == <<"C", "o", "u", "r", "t", " ", "2", " ">>

HeaderPool ==
    {H_Empty, H_Time, H_C2TeamA, H_C2ScoreA, H_C10A, H_c2scoreb,
     H_C3Notes, H_C1Blank, H_C2Bare}

MaxHeaders == 4

HeaderLists == UNION {[1..n -> HeaderPool] : n \in 0..MaxHeaders}

(***************************************************************************)
(* Rounds used as inputs of rendering                                      *)
(***************************************************************************)

S_Court1 == <<"C", "o", "u", "r", "t", " ", "1">>
S_Court2 == <<"C", "o", "u", "r", "t", " ", "2">>
S_9AM == <<"9", "A", "M">>
T_A == <<"A">>
T_B == <<"B">>
T_C == <<"C">>
S_21 == <<"2", "1">>
S_15 == <<"1", "5">>
S_9 == <<"9">>

Matchup(court, teamA, scoreA, teamB, scoreB) ==
    [court |-> court, hasScores |-> TRUE,
     teamA |-> teamA, teamB |-> teamB, scoreA |-> scoreA, scoreB |-> scoreB]

M1_None   == Matchup(S_Court1, <<>>, <<>>, <<>>, <<>>)
M1_AB2115 == Matchup(S_Court1, T_A, S_21, T_B, S_15)
M1_AB1515 == Matchup(S_Court1, T_A, S_15, T_B, S_15)
M1_B15    == Matchup(S_Court1, T_B, S_15, <<>>, <<>>)
M1_Scores == Matchup(S_Court1, <<>>, S_21, <<>>, S_15)
M2_None   == Matchup(S_Court2, <<>>, <<>>, <<>>, <<>>)
M2_CA915  == Matchup(S_Court2, T_C, S_9, T_A, S_15)

Court1Matchups == {M1_None, M1_AB2115, M1_AB1515, M1_B15, M1_Scores}
Court2Matchups == {M2_None, M2_CA915}

\* Rounds with a time, and rounds without one (their scores are never looked at).
RoundPool ==
    {[time |-> S_9AM, matchups |-> <<m1, m2>>] :
        m1 \in Court1Matchups, m2 \in Court2Matchups}
    \cup
    {[time |-> <<>>, matchups |-> <<m1, m2>>] :
        m1 \in {M1_None, M1_AB2115}, m2 \in Court2Matchups}

MaxRounds == 3

RoundLists == UNION {[1..n -> RoundPool] : n \in 0..MaxRounds}

(***************************************************************************)
(* Sheets and responses used as inputs of the load cycle                   *)
(***************************************************************************)

H_Notes    == <<"N", "o", "t", "e", "s">>
H_C1TeamA  == <<"C", "o", "u", "r", "t", " ", "1", " ", "T", "e", "a", "m", " ", "A">>
H_C1ScoreA == <<"C", "o", "u", "r", "t", " ", "1", " ", "S", "c", "o", "r", "e", " ", "A">>
H_C1TeamB  == <<"C", "o", "u", "r", "t", " ", "1", " ", "T", "e", "a", "m", " ", "B">>
H_C1ScoreB == <<"C", "o", "u", "r", "t", " ", "1", " ", "S", "c", "o", "r", "e", " ", "B">>

SheetCols == <<H_Notes, H_Time, H_C1TeamA, H_C1ScoreA, H_C1TeamB, H_C1ScoreB>>

\* A team name that holds a double quote: A"B
T_AqB == <<"A", "\"", "B">>

SheetRow(time, teamA, scoreA, teamB, scoreB) ==
    <<Null, Cell(time, Null), Cell(teamA, Null), Cell(scoreA, Null),
      Cell(teamB, Null), Cell(scoreB, Null)>>

Table(rows) == [t |-> "table", cols |-> SheetCols, rows |-> rows]

\* 10AM: A 21 - B 18, then an 11AM round not yet scheduled.
TableAB ==
    Table(<<SheetRow(Tod(10, 0), Str(T_A), Num(21), Str(T_B), Num(18)),
            SheetRow(Tod(11, 0), Null, Null, Null, Null)>>)

\* 10AM: A"B 21 - B 18.
TableQuote ==
    Table(<<SheetRow(Tod(10, 0), Str(T_AqB), Num(21), Str(T_B), Num(18))>>)

OkResponse(table) == [status |-> "ok", table |-> table, errors |-> <<>>]
ErrorResponse(errors) == [status |-> "error", table |-> Null, errors |-> errors]

Tables == {TableAB, TableQuote}

\* A sheet, a response without a table, an error with and without details.
Responses ==
    {OkResponse(t) : t \in Tables} \cup
    {OkResponse(Null),
     ErrorResponse(<<[detailed_message |-> "Invalid query", message |-> "Error"]>>),
     ErrorResponse(<<>>)}

\* parseRounds(table), computed once for each sheet of the pool.
ParsedTable == [t \in Tables |-> parseRounds(t)]

(***************************************************************************)
(* Page state                                                              *)
(***************************************************************************)

\* cachedRounds: null, or an array of rounds (an empty array is not null).
NullRounds == [isNull |-> TRUE, rounds |-> <<>>]
SomeRounds(rounds) == [isNull |-> FALSE, rounds |-> rounds]

\* The markup #tournament-content starts with, before any load or render.
InitialContent == Content("initial", <<>>, <<>>, "")

\* The #team-filter select as the page's markup leaves it: "All Teams" alone.
InitialSelect == [options |-> {<<>>}, value |-> <<>>, disabled |-> FALSE]

\* The value the HTML parser gives the attribute in <option value="${t}">: the
\* text is interpolated unescaped, so the value ends at the first double quote
\* of t.  (Character references are not modelled: no modelled name holds "&".)
RECURSIVE AttrValue(_)
AttrValue(t) ==
    IF t = <<>> \/ Head(t) = "\"" THEN <<>>
    ELSE <<Head(t)>> \o AttrValue(Tail(t))

\* populateTeamFilter(teams): the select afterwards.  The option of the team
\* equal to the previous value is marked selected; with no such option the
\* select falls back to its first option, "All Teams".
populateTeamFilter(prevSel, teams) ==
    LET prev     == prevSel.value
        selected == {t \in teams : t = prev}
    IN  [options  |-> {<<>>} \cup {AttrValue(t) : t \in teams},
         value    |-> IF selected # {} THEN AttrValue(CHOOSE t \in selected : TRUE)
                      ELSE <<>>,
         disabled |-> teams = {}]

\* filterByTeam(team)
filterByTeam(team) ==
    /\ activeTeamFilter' = team
    /\ content' = IF ~cachedRounds.isNull
                  THEN renderAll(cachedRounds.rounds, team)
                  ELSE content
    /\ UNCHANGED cachedRounds

(***************************************************************************)
(* fetchSheetData                                                          *)
(*                                                                         *)
(* Every call of fetchSheetData takes a slot.  A slot is in use while its  *)
(* promise is pending or its script's request can still complete; a slot   *)
(* no longer in use keeps the outcome of its promise until a later call    *)
(* takes the slot.                                                         *)
(*                                                                         *)
(* Date.now() is modelled as a non-decreasing clock.  Only equality of its *)
(* readings matters (they name the callbacks), so a reading is a token:    *)
(* clock is the token of the current reading, or 0 when the current        *)
(* reading has not named a callback yet.                                   *)
(***************************************************************************)

MaxCalls == 2

Slots == 1..MaxCalls

\* Tokens for the readings of Date.now() that name a callback.
Readings == 1..MaxCalls

\* promise: none, pending, resolved, rejected; reason: why it was rejected;
\* name: the reading in cbName; timer: the timeout timer is armed; script: the
\* script element is in the document; transport: the script's request has not
\* completed; manual: the call was made by manualRefresh's load cycle; foreign:
\* the promise was settled by the script of another call.
NoCall ==
    [promise |-> "none", reason |-> "", name |-> 0, timer |-> FALSE,
     script |-> FALSE, transport |-> FALSE, manual |-> FALSE, foreign |-> FALSE]

Pending(i) == calls[i].promise = "pending"
Settled(i) == calls[i].promise \in {"resolved", "rejected"}
InUse(i) == Pending(i) \/ calls[i].transport

FreeSlots == {i \in Slots : ~InUse(i)}

\* The slot the next call takes.
NewSlot == CHOOSE i \in FreeSlots : \A j \in FreeSlots : i <= j

\* The readings no call in use carries.
UnusedReadings == {n \in Readings : \A i \in Slots : InUse(i) => calls[i].name # n}

\* Date.now() in fetchSheetData: the current reading's token; when the reading
\* has named no callback yet, a token no call in use carries.
DateNow ==
    IF clock # 0 THEN clock
    ELSE CHOOSE n \in UnusedReadings : \A m \in UnusedReadings : n <= m

\* The executor of the promise: a pending promise, the timeout timer armed, the
\* callback registered (by the caller, in windowCb), the script appended.
NewCall(name, manual) ==
    [promise |-> "pending", reason |-> "", name |-> name, timer |-> TRUE,
     script |-> TRUE, transport |-> TRUE, manual |-> manual, foreign |-> FALSE]

\* resolve(...) / reject(...): only the first call settles the promise.
Settle(c, state, reason, foreign) ==
    IF c.promise = "pending"
    THEN [c EXCEPT !.promise = state, !.reason = reason, !.foreign = foreign]
    ELSE c

\* Mutant of DeleteCallback: the global is left registered.
DeleteCallback_Leaks(w, name) == w

\* cleanup(), first statement: delete window[cbName].
DeleteCallback(w, name) == [w EXCEPT ![name] = 0]

\* cleanup(), second statement: the script leaves the document.
RemoveScript(c) == [c EXCEPT !.script = FALSE]

\* response?.errors?.[0]?.detailed_message || response?.errors?.[0]?.message || ...
RemoteDetail(response) ==
    IF Len(response.errors) > 0 /\ response.errors[1].detailed_message # ""
    THEN response.errors[1].detailed_message
    ELSE IF Len(response.errors) > 0 /\ response.errors[1].message # ""
    THEN response.errors[1].message
    ELSE "Unknown error from Google Sheets"

\* window[cbName] = function (response) {...}, run on the record c of the call
\* that registered it; foreign tells that another call's script invoked it.
Callback(c, response, foreign) ==
    LET c1 == RemoveScript([c EXCEPT !.timer = FALSE])
    IN  IF response.status = "ok"
        THEN Settle(c1, "resolved", "", foreign)
        ELSE Settle(c1, "rejected", "remote", foreign)

\* script.onerror of the call of record c.
OnError(c) ==
    Settle(RemoveScript([c EXCEPT !.timer = FALSE]), "rejected", "network", FALSE)

\* The setTimeout callback of the call of record c.
OnTimeout(c) ==
    Settle(RemoveScript([c EXCEPT !.timer = FALSE]), "rejected", "timeout", FALSE)

\* err.message of a rejected promise.
ErrorMessage(c, response) ==
    CASE c.reason = "timeout" -> "Request timed out"
      [] c.reason = "network" -> "Network error"
      [] c.reason = "remote"  -> RemoteDetail(response)

\* A slot that is no longer in use keeps the outcome of its promise only.
Retire(c) ==
    IF c.promise # "pending" /\ ~c.transport
    THEN [c EXCEPT !.name = 0, !.manual = FALSE]
    ELSE c

(***************************************************************************)
(* loadData, scheduleRefresh, manualRefresh                                *)
(***************************************************************************)

\* An id setTimeout has not handed out among the timers the model remembers.
NewTimerId ==
    CHOOSE t \in 1..(MaxCalls + 2) :
        /\ t \notin timers \cup {refreshTimer}
        /\ \A u \in 1..(MaxCalls + 2) : u \notin timers \cup {refreshTimer} => t <= u

\* scheduleRefresh(): clearTimeout(refreshTimer); refreshTimer = setTimeout(...).
scheduleRefresh ==
    /\ timers' = (timers \ {refreshTimer}) \cup {NewTimerId}
    /\ refreshTimer' = NewTimerId

\* Mutant of ThenSchedule: the timer is armed again only after a success.
ThenSchedule_OnSuccessOnly(ok) ==
    IF ok THEN scheduleRefresh ELSE UNCHANGED <<timers, refreshTimer>>

\* loadData().then(scheduleRefresh) and "await loadData(); scheduleRefresh()":
\* loadData catches every error, so scheduleRefresh follows either outcome.
ThenSchedule(ok) == scheduleRefresh

\* loadData() up to its await: setStatus('Loading...'), then fetchSheetData()
\* creates the promise, registers the callback and appends the script.
StartLoad(manual) ==
    LET i    == NewSlot
        name == DateNow
    IN  /\ status' = "loading"
        /\ calls' = [calls EXCEPT ![i] = NewCall(name, manual)]
        /\ windowCb' = [windowCb EXCEPT ![name] = i]
        /\ clock' = name
        /\ UNCHANGED <<cachedRounds, activeTeamFilter, content, sel, lastResult>>

\* loadData() after its await, try branch (table is a well-formed table).
LoadSucceeds(table) ==
    LET rounds == ParsedTable[table]
        newSel == populateTeamFilter(sel, collectTeams(rounds))
    IN  /\ cachedRounds' = SomeRounds(rounds)
        /\ sel' = newSel
        /\ activeTeamFilter' = newSel.value
        /\ content' = renderAll(rounds, newSel.value)
        /\ status' = "live"
        /\ lastResult' = "ok"

\* loadData() after its await, catch branch.
LoadFails(message) ==
    /\ status' = "error"
    /\ content' = Content("error", <<>>, <<>>, message)
    /\ lastResult' = "fail"
    /\ UNCHANGED <<cachedRounds, activeTeamFilter, sel>>

\* What runs, in the same turn of the event loop, once the promise of call j
\* (record c after the handler) has settled: the rest of loadData, then the
\* scheduleRefresh that follows it.  A resolved value that is no table makes
\* parseRounds throw a TypeError, which loadData catches.
Resume(c, response) ==
    IF c.promise = "resolved" /\ response.table.t = "table"
    THEN LoadSucceeds(response.table) /\ ThenSchedule(TRUE)
    ELSE /\ LoadFails(IF c.promise = "resolved" THEN "TypeError"
                       ELSE ErrorMessage(c, response))
         /\ ThenSchedule(FALSE)

Untouched ==
    UNCHANGED <<cachedRounds, activeTeamFilter, content, sel, status, lastResult,
                timers, refreshTimer>>

\* The script of call i loads and runs "<cbName>(response)".
ScriptLoads(i, response) ==
    /\ calls[i].transport
    /\ LET j  == windowCb[calls[i].name]
           c1 == [calls EXCEPT ![i].transport = FALSE]
       IN  IF j = 0
           THEN /\ calls' = [k \in Slots |-> Retire(c1[k])]
                /\ UNCHANGED windowCb
                /\ Untouched
           ELSE /\ calls' = [k \in Slots |->
                            Retire(IF k = j THEN Callback(c1[j], response, i # j)
                                   ELSE c1[k])]
                /\ windowCb' = DeleteCallback(windowCb, calls[j].name)
                /\ IF Pending(j) THEN Resume(calls'[j], response) ELSE Untouched
    /\ UNCHANGED <<booted, clock, courtVars>>

\* The request of call i fails: script.onerror runs.
ScriptError(i) ==
    /\ calls[i].transport
    /\ calls' = [calls EXCEPT ![i] = Retire(OnError([@ EXCEPT !.transport = FALSE]))]
    /\ windowCb' = DeleteCallback(windowCb, calls[i].name)
    /\ IF Pending(i) THEN Resume(calls'[i], Null) ELSE Untouched
    /\ UNCHANGED <<booted, clock, courtVars>>

\* The timeout timer of call i is armed and FETCH_TIMEOUT ms have passed since
\* the call read the clock, so the clock shows a later reading.
TimeoutDue(i) == calls[i].timer /\ clock # calls[i].name

\* The timeout timer of call i fires.
FetchTimeout(i) ==
    /\ TimeoutDue(i)
    /\ calls' = [calls EXCEPT ![i] = Retire(OnTimeout(@))]
    /\ windowCb' = DeleteCallback(windowCb, calls[i].name)
    /\ IF Pending(i) THEN Resume(calls'[i], Null) ELSE Untouched
    /\ UNCHANGED <<booted, clock, courtVars>>

\* Time passes: Date.now() moves on to a reading that has named no callback.
Tick ==
    /\ clock # 0
    /\ clock' = 0
    /\ UNCHANGED <<booted, calls, windowCb, timers, refreshTimer, status, sel,
                   lastResult, viewVars, courtVars>>

\* The DOMContentLoaded listener: loadData().then(scheduleRefresh).
DOMContentLoaded ==
    /\ ~booted
    /\ booted' = TRUE
    /\ StartLoad(FALSE)
    /\ UNCHANGED <<timers, refreshTimer, courtVars>>

\* manualRefresh(): clearTimeout(refreshTimer); loadData().then(scheduleRefresh).
\* The button works once the page has loaded; FreeSlots # {} keeps the number
\* of coexisting calls within MaxCalls.
manualRefresh ==
    /\ booted
    /\ FreeSlots # {}
    /\ timers' = timers \ {refreshTimer}
    /\ StartLoad(TRUE)
    /\ UNCHANGED <<booted, refreshTimer, courtVars>>

\* The refresh timer is due.  Timers fire in the order they fall due, and a
\* timeout timer (FETCH_TIMEOUT = 10 s) that is armed while a refresh timer
\* (REFRESH_MS = 30 s) is armed was armed before it: the calls made after a
\* refresh timer was armed are made by manualRefresh, which clears that timer,
\* or by the timer's own firing.  So every armed timeout timer fires first.
RefreshDue == \A i \in Slots : ~calls[i].timer

\* A refresh timer fires: await loadData(); scheduleRefresh().
RefreshTimerFires ==
    /\ RefreshDue
    /\ FreeSlots # {}
    /\ \E t \in timers : timers' = timers \ {t}
    /\ StartLoad(FALSE)
    /\ UNCHANGED <<booted, refreshTimer, courtVars>>

\* The user changes the select to another of its options: filterByTeam(value).
SelectTeam ==
    /\ ~sel.disabled
    /\ \E v \in sel.options \ {sel.value} :
          /\ sel' = [sel EXCEPT !.value = v]
          /\ filterByTeam(v)
    /\ UNCHANGED <<booted, calls, windowCb, clock, timers, refreshTimer, status,
                   lastResult, courtVars>>

(***************************************************************************)
(* The page: start-up, refresh timers, manual refreshes, fetches           *)
(***************************************************************************)

CourtsIdle == headers = <<>> /\ courts = <<>> /\ parsed = FALSE

ViewIdle ==
    /\ cachedRounds = NullRounds
    /\ activeTeamFilter = <<>>
    /\ content = InitialContent

CycleIdle ==
    /\ booted = FALSE
    /\ status = "idle"
    /\ sel = InitialSelect
    /\ refreshTimer = 0
    /\ timers = {}
    /\ calls = [i \in Slots |-> NoCall]
    /\ windowCb = [n \in Readings |-> 0]
    /\ clock = 0
    /\ lastResult = "none"

Init == CycleIdle /\ ViewIdle /\ CourtsIdle

Next ==
    \/ DOMContentLoaded
    \/ manualRefresh
    \/ RefreshTimerFires
    \/ Tick
    \/ SelectTeam
    \/ \E i \in Slots : FetchTimeout(i)
    \/ \E i \in Slots : ScriptError(i)
    \/ \E i \in Slots : \E response \in Responses : ScriptLoads(i, response)

Spec == Init /\ [][Next]_vars

\* The responses of the runs checked for progress: a sheet and a remote error
\* (timeouts and network errors are FetchTimeout and ScriptError).
LiveResponses ==
    {OkResponse(TableAB),
     ErrorResponse(<<[detailed_message |-> "Invalid query", message |-> "Error"]>>)}

LiveNext ==
    \/ DOMContentLoaded
    \/ manualRefresh
    \/ RefreshTimerFires
    \/ Tick
    \/ SelectTeam
    \/ \E i \in Slots : FetchTimeout(i)
    \/ \E i \in Slots : ScriptError(i)
    \/ \E i \in Slots : \E response \in LiveResponses : ScriptLoads(i, response)

\* The request of call i completes, one way or the other.
RequestCompletes(i) ==
    ScriptError(i) \/ \E response \in LiveResponses : ScriptLoads(i, response)

\* The page loads, time passes, an armed timer that is due fires, and the
\* request of every script ends: it loads or it fails.
Fairness ==
    /\ WF_vars(DOMContentLoaded)
    /\ WF_vars(Tick)
    /\ WF_vars(RefreshTimerFires)
    /\ \A i \in Slots : WF_vars(FetchTimeout(i))
    /\ \A i \in Slots : WF_vars(RequestCompletes(i))

LiveSpec == Init /\ [][LiveNext]_vars /\ Fairness

(***************************************************************************)
(* parseCourts on its own                                                  *)
(***************************************************************************)

CourtsInit ==
    /\ headers \in HeaderLists
    /\ courts = <<>>
    /\ parsed = FALSE
    /\ ViewIdle
    /\ CycleIdle

ParseCourts ==
    /\ ~parsed
    /\ courts' = parseCourts(headers)
    /\ parsed' = TRUE
    /\ UNCHANGED <<headers, viewVars, cycleVars>>

CourtsNext == ParseCourts

SpecCourts == CourtsInit /\ [][CourtsNext]_vars

(***************************************************************************)
(* Rendering on its own: rounds as parseRounds produces them (every round  *)
(* has the same courts in the same order, cell texts trimmed), then any    *)
(* number of filter selections.                                            *)
(***************************************************************************)

RenderInit ==
    /\ cachedRounds \in {SomeRounds(rs) : rs \in RoundLists}
    /\ activeTeamFilter = <<>>
    /\ content = InitialContent
    /\ CourtsIdle
    /\ CycleIdle

\* The user picks "All Teams" or one of the names collectTeams offers.
PickTeam ==
    /\ \E team \in {<<>>} \cup collectTeams(cachedRounds.rounds) : filterByTeam(team)
    /\ UNCHANGED <<courtVars, cycleVars>>

RenderNext == PickTeam

SpecRender == RenderInit /\ [][RenderNext]_vars

(***************************************************************************)
(* Claims about parseCourts (SpecCourts)                                   *)
(***************************************************************************)

\* C10: once parseCourts has returned, its result has exactly one court for every
\* distinct court name captured from a matching header at index 2 or later (and no
\* other court), the courts are in ascending order of the integer in their name,
\* and hasScores is set exactly for the courts that have a "score a" or "score b"
\* header.
MatchedPositions ==
    {p \in 1..Len(headers) : p - 1 >= 2 /\ MatchCourt(headers[p]).ok}

CapturedNames == {MatchCourt(headers[p]).name : p \in MatchedPositions}

HasScoreHeader(name) ==
    \E p \in MatchedPositions :
        /\ MatchCourt(headers[p]).name = name
        /\ ToLowerCase(Trim(MatchCourt(headers[p]).rest)) \in {FieldScoreA, FieldScoreB}

Thm_C10_ParseCourts ==
    parsed =>
        /\ {courts[k].name : k \in 1..Len(courts)} = CapturedNames
        /\ Len(courts) = Cardinality(CapturedNames)
        /\ \A j, k \in 1..Len(courts) :
              j < k => CourtNumber(courts[j].name) <= CourtNumber(courts[k].name)
        /\ \A k \in 1..Len(courts) :
              courts[k].hasScores <=> HasScoreHeader(courts[k].name)

\* C10 witness: indices 0 and 1 hold matching headers that are ignored, Court 10
\* is met before Court 2, and the result is Court 2 (scores) then Court 10 (none).
Wit_C10_ParseCourts ==
    /\ parsed
    /\ headers = <<H_C3Notes, H_C2TeamA, H_C10A, H_C2ScoreA>>
    /\ Len(courts) = 2
    /\ CourtNumber(courts[1].name) = 2 /\ courts[1].hasScores
    /\ CourtNumber(courts[2].name) = 10 /\ ~courts[2].hasScores

(***************************************************************************)
(* Claims about rendering (SpecRender)                                     *)
(***************************************************************************)

\* The rounds with a time, as positions of cachedRounds.rounds in order.
ValidPositions ==
    SelectSeq([r \in 1..Len(cachedRounds.rounds) |-> r],
              LAMBDA r : cachedRounds.rounds[r].time # <<>>)

\* The matchup the cell of row j and time column c of the grid was rendered from.
CellMatchup(j, c) ==
    LET round == cachedRounds.rounds[ValidPositions[c]]
        k     == CHOOSE k \in 1..Len(round.matchups) :
                    round.matchups[k].court = content.rows[j].court
    IN  round.matchups[k]

\* Whether some matchup of the valid round after time column c names a team.
FollowingRoundHasTeams(c) ==
    /\ c < Len(ValidPositions)
    /\ \E k \in 1..Len(cachedRounds.rounds[ValidPositions[c + 1]].matchups) :
          LET nm == cachedRounds.rounds[ValidPositions[c + 1]].matchups[k]
          IN  nm.teamA # <<>> \/ nm.teamB # <<>>

\* Whether the cell of a matchup shows the matchup (not the placeholder dash).
ShowsMatchup(m) ==
    /\ m.teamA # <<>> \/ m.teamB # <<>>
    /\ activeTeamFilter = <<>> \/ m.teamA = activeTeamFilter \/ m.teamB = activeTeamFilter

BothScores(m) == m.scoreA # <<>> /\ m.scoreB # <<>>

\* The winner marks of every cell of the grid are those that showWinner(c) gives.
WinnersFollow(showWinner(_)) ==
    content.kind = "grid" =>
        \A j \in 1..Len(content.rows) : \A c \in 1..Len(content.rows[j].cells) :
            LET m  == CellMatchup(j, c)
                on == ShowsMatchup(m) /\ showWinner(c) /\ BothScores(m)
            IN  /\ content.rows[j].cells[c].aWins
                     <=> (on /\ DigitsValue(m.scoreA) > DigitsValue(m.scoreB))
                /\ content.rows[j].cells[c].bWins
                     <=> (on /\ DigitsValue(m.scoreB) > DigitsValue(m.scoreA))

\* C8 as stated: showWinner is false for the last valid round and for a round
\* whose following valid round names no team, and true otherwise; with showWinner
\* true and both scores present the strictly higher score's side is marked winner,
\* and no side is marked in any other case.
Orig_C8_ShowWinner ==
    WinnersFollow(LAMBDA c : c < Len(ValidPositions) /\ FollowingRoundHasTeams(c))

\* C8 amended: showWinner is true for the last valid round and for a round whose
\* following valid round names a team, false otherwise; in a cell that shows its
\* matchup, with showWinner true and both scores present, the strictly higher
\* score's side is marked winner, and no side is marked in any other case.
Thm_C8_ShowWinner ==
    WinnersFollow(LAMBDA c : c = Len(ValidPositions) \/ FollowingRoundHasTeams(c))

\* C8 witness: three valid rounds on screen; 21-15 in the first is followed by a
\* round without teams and marks no winner, 21-15 in the last marks side A.
Wit_C8_ShowWinner ==
    /\ content.kind = "grid"
    /\ activeTeamFilter = <<>>
    /\ Len(content.times) = 3
    /\ cachedRounds.rounds[1].matchups[1] = M1_AB2115
    /\ cachedRounds.rounds[2].matchups = <<M1_None, M2_None>>
    /\ cachedRounds.rounds[3].matchups[1] = M1_AB2115
    /\ ~content.rows[1].cells[1].aWins
    /\ content.rows[1].cells[3].aWins /\ ~content.rows[1].cells[3].bWins

\* The courts of the parsed rounds, as positions of a round's matchups.
CourtPositions ==
    IF Len(cachedRounds.rounds) = 0 THEN {}
    ELSE 1..Len(cachedRounds.rounds[1].matchups)

CourtName(i) == cachedRounds.rounds[1].matchups[i].court

\* Whether court i plays the active filter's team in one of the rounds at positions rs.
PlaysFilterIn(i, rs) ==
    \E r \in rs :
        \/ cachedRounds.rounds[r].matchups[i].teamA = activeTeamFilter
        \/ cachedRounds.rounds[r].matchups[i].teamB = activeTeamFilter

\* The court names that have a row on screen.
RowsShown ==
    IF content.kind = "grid"
    THEN {content.rows[j].court : j \in 1..Len(content.rows)}
    ELSE {}

Rendered == content.kind # "initial"

\* C9 as stated: after rendering with an offered team as filter, the court rows on
\* screen are exactly the courts with at least one round (with or without a time)
\* whose matchup on that court names the team.  (The claim's second sentence, on
\* the empty filter, is left out here: it is read as being about a sheet that
\* has a round with a time.)
Orig_C9_FilterRows ==
    (Rendered /\ activeTeamFilter # <<>>) =>
        RowsShown =
            {CourtName(i) : i \in
                {i \in CourtPositions : PlaysFilterIn(i, 1..Len(cachedRounds.rounds))}}

\* C9 amended: after rendering with an offered team as filter, the court rows on
\* screen are exactly the courts with at least one round with a non-empty time
\* whose matchup on that court names the team (one row per court); with an empty
\* filter every court has a row provided some round has a non-empty time.  A team
\* named only in rounds without a time gets no row.
Thm_C9_FilterRows ==
    Rendered =>
        LET valid == {ValidPositions[c] : c \in 1..Len(ValidPositions)}
            kept  == {i \in CourtPositions :
                        /\ valid # {}
                        /\ activeTeamFilter = <<>> \/ PlaysFilterIn(i, valid)}
        IN  /\ RowsShown = {CourtName(i) : i \in kept}
            /\ content.kind = "grid" => Len(content.rows) = Cardinality(kept)
            /\ content.kind = "grid" <=> kept # {}

\* C9 witness: team A is named on Court 1 only in a round without a time and on
\* Court 2 in a round with one; filtering on A shows the Court 2 row alone.
Wit_C9_FilterRows ==
    /\ activeTeamFilter = T_A
    /\ content.kind = "grid"
    /\ RowsShown = {S_Court2}
    /\ \E r \in 1..Len(cachedRounds.rounds) :
          /\ cachedRounds.rounds[r].time = <<>>
          /\ cachedRounds.rounds[r].matchups[1].teamA = T_A

(***************************************************************************)
(* Claims about the load cycle (Spec, LiveSpec)                            *)
(***************************************************************************)

\* The load cycles in flight: the loadData() calls awaiting their fetch.
CyclesInFlight == {i \in Slots : Pending(i)}

\* C1 as stated: in every reachable state at most one loadData() cycle is in
\* flight.
Orig_C1_OneCycle == Cardinality(CyclesInFlight) <= 1

\* The callback of call i is not registered under any name.
Unregistered(i) == \A n \in Readings : windowCb[n] # i

\* C2, in every state: a call whose promise has settled has no callback registered
\* and no script element in the document, and a call rejected by its timeout
\* whose response can still arrive has no callback registered under its name.
CleanedUp ==
    \A i \in Slots :
        /\ Settled(i) => Unregistered(i) /\ ~calls[i].script /\ ~calls[i].timer
        /\ (calls[i].promise = "rejected" /\ calls[i].reason = "timeout"
              /\ calls[i].transport) => windowCb[calls[i].name] = 0

\* C2, in every step: the outcome of a settled promise changes no more while
\* the call lasts, a response that arrives after the timeout changes nothing
\* on the page, and the timeout of a pending call rejects it with the timeout
\* error.
SettlesOnce ==
    \A i \in Slots :
        /\ (Settled(i) /\ InUse(i)) =>
              /\ calls'[i].promise = calls[i].promise
              /\ calls'[i].reason = calls[i].reason
        /\ (calls[i].promise = "rejected" /\ calls[i].reason = "timeout"
              /\ calls[i].transport /\ ~calls'[i].transport) =>
              UNCHANGED <<viewVars, status, sel, lastResult, timers, refreshTimer,
                          windowCb>>
        /\ (Pending(i) /\ FetchTimeout(i)) =>
              /\ calls'[i].promise = "rejected"
              /\ calls'[i].reason = "timeout"
              /\ content' = Content("error", <<>>, <<>>, "Request timed out")

\* C2: for every fetchSheetData() call and every way it ends, once the promise has
\* settled the call's callback is no longer registered and its script element is
\* out of the document, the promise settles exactly once, a call whose callback is
\* never invoked rejects with the timeout error, and a response arriving after that
\* timeout finds no callback and settles nothing.
Thm_C2_Cleanup == [](CleanedUp) /\ [][SettlesOnce]_vars

\* C2 witness: a call has been rejected by its timeout, the page shows the
\* timeout error, the call's response is still on its way and no callback is
\* registered for it.
Wit_C2_Cleanup ==
    \E i \in Slots :
        /\ calls[i].promise = "rejected" /\ calls[i].reason = "timeout"
        /\ calls[i].transport
        /\ ~calls[i].script
        /\ windowCb[calls[i].name] = 0
        /\ content = Content("error", <<>>, <<>>, "Request timed out")

\* C3 as stated: each call has its own callback identity: while a call is pending
\* the callback registered under its name is its own (no other call replaced or
\* unregistered it), and no promise was settled by the response of another call.
Orig_C3_OwnCallback ==
    \A i \in Slots :
        /\ Pending(i) => windowCb[calls[i].name] = i
        /\ ~calls[i].foreign

\* C4 as stated: from the failure of a load cycle until the next load cycle
\* succeeds, the content region shows the error message.
Orig_C4_ErrorStays == lastResult = "fail" => content.kind = "error"

\* C5 as stated: at most one refresh timer is pending, it is the one scheduleRefresh
\* armed last, and while the load cycle of a manualRefresh() has not resolved no
\* timer is armed.
Orig_C5_NoStacking ==
    /\ Cardinality(timers) <= 1
    /\ timers \subseteq {refreshTimer}
    /\ \A i \in Slots : (Pending(i) /\ calls[i].manual) => timers = {}

\* The messages a failed cycle leaves on the page, by the kind of error:
\* timeout, network error, remote error.
ErrorMessages == {"Request timed out", "Network error", "Invalid query"}

\* The cycle that ended last ended in 'live', or in 'error' with the message
\* of one of the error kinds, and no cycle has been started since.
CycleEnded ==
    \/ status = "live"
    \/ \E msg \in ErrorMessages : status = "error" /\ content.msg = msg

\* A load cycle ends in this step.
CycleEnds == \E i \in Slots : Pending(i) /\ ~Pending(i)'

\* C6, in every step that ends a load cycle: the status becomes 'live' or
\* 'error', and no fetch is started (the cycle's one fetch is not retried).
EndsWithoutRetry ==
    CycleEnds =>
        /\ status' \in {"live", "error"}
        /\ \A j \in Slots : Pending(j)' => Pending(j)
        /\ \A j \in Slots : calls'[j].script => calls[j].script

\* C6: under fairness every load cycle eventually ends, in status 'live' or
\* 'error'; after a cycle has ended, in 'live' or with any of the error kinds,
\* another load cycle is eventually started; and the step that ends a cycle starts
\* no fetch.
Thm_C6_KeepsRefreshing ==
    /\ \A i \in Slots : Pending(i) ~> ~Pending(i)
    /\ CycleEnded ~> (status = "loading")
    /\ [][EndsWithoutRetry]_vars

\* C6 witness: the last cycle failed with a timeout, and the next cycle, started
\* by the refresh timer, is awaiting its fetch.
Wit_C6_KeepsRefreshing ==
    /\ lastResult = "fail"
    /\ content = Content("error", <<>>, <<>>, "Request timed out")
    /\ status = "loading"
    /\ timers = {}
    /\ Cardinality(CyclesInFlight) = 1
    /\ \E i \in Slots : Pending(i) /\ ~calls[i].manual

\* C7 as stated: activeTeamFilter is "" or a team name occurring in cachedRounds.
Orig_C7_FilterIsTeam ==
    activeTeamFilter \in {<<>>} \cup collectTeams(cachedRounds.rounds)

====
